---------------------------- MODULE Spec2Model ----------------------------
(***************************************************************************)
(* Die-shop API: production orders, their expansion into work orders and   *)
(* work-order operations, and the operation status machine.                *)
(*                                                                         *)
(* Every table of the database is a sequence of rows whose index is the    *)
(* row's autoincrement primary key.  Every request handler is one action:  *)
(* a handler runs in one SQLAlchemy session, and what it has not committed *)
(* when it raises is discarded when get_db closes the session.  Where      *)
(* requests overlap, a handler is two actions, its reads and its commit.   *)
(*                                                                         *)
(* Strings that the code parses or formats (die numbers, order numbers)    *)
(* are sequences of one-character strings, so that split, int(), the       *)
(* zero-padded formats and the ORDER BY on order_number are computed.      *)
(***************************************************************************)
EXTENDS Integers, Sequences, FiniteSets, TLC

(***************************************************************************)
(* Bounds of the model.                                                    *)
(***************************************************************************)
MaxTime == 2
MaxProductionOrders == 1
MaxNumberedOrders == 3
MaxWorkOrders == 3
MaxOperations == 4
MaxMovements == 2
MaxLots == 2
MaxSessions == 2
MaxHistory == 998
MaxLateOrders == 5

(***************************************************************************)
(* Characters and strings.                                                 *)
(***************************************************************************)
Digits == <<"0", "1", "2", "3", "4", "5", "6", "7", "8", "9">>
Letters == <<"A", "B", "C", "D", "E", "F", "G", "H", "I", "J", "K", "L", "M",
             "N", "O", "P", "Q", "R", "S", "T", "U", "V", "W", "X", "Y", "Z">>

IsDigit(c) == \E i \in 1..10 : Digits[i] = c
DigitVal(c) == (CHOOSE i \in 1..10 : Digits[i] = c) - 1

\* The code point of a character: '-' < digits < upper-case letters.
CharCode(c) ==
    IF c = "-" THEN 45
    ELSE IF IsDigit(c) THEN 48 + DigitVal(c)
    ELSE 64 + (CHOOSE i \in 1..26 : Letters[i] = c)

\* a < b in the order of ORDER BY on a string column (code-point order).
RECURSIVE StrLess(_, _)
StrLess(a, b) ==
    IF b = <<>> THEN FALSE
    ELSE IF a = <<>> THEN TRUE
    ELSE IF Head(a) = Head(b) THEN StrLess(Tail(a), Tail(b))
    ELSE CharCode(Head(a)) < CharCode(Head(b))

\* order_number LIKE '<prefix>%'
StartsWith(s, prefix) ==
    /\ Len(s) >= Len(prefix)
    /\ SubSeq(s, 1, Len(prefix)) = prefix

\* str.split("-", maxsplit): at most maxsplit cuts, from the left; a negative
\* maxsplit cuts at every hyphen.
RECURSIVE SplitFrom(_, _, _)
SplitFrom(s, maxsplit, cur) ==
    IF s = <<>> THEN <<cur>>
    ELSE IF Head(s) = "-" /\ maxsplit /= 0
         THEN <<cur>> \o SplitFrom(Tail(s), maxsplit - 1, <<>>)
         ELSE SplitFrom(Tail(s), maxsplit, Append(cur, Head(s)))

Split(s, maxsplit) == SplitFrom(s, maxsplit, <<>>)

\* int(s) for a string of the model's alphabet: a value for a non-empty
\* string of digits, ValueError (ok = FALSE) otherwise.
RECURSIVE DigitsValue(_, _)
DigitsValue(s, acc) ==
    IF s = <<>> THEN acc ELSE DigitsValue(Tail(s), 10 * acc + DigitVal(Head(s)))

ParseInt(s) ==
    IF s /= <<>> /\ \A i \in 1..Len(s) : IsDigit(s[i])
    THEN [ok |-> TRUE, val |-> DigitsValue(s, 0)]
    ELSE [ok |-> FALSE, val |-> 0]

\* str(n) for n >= 0.
RECURSIVE Decimal(_)
Decimal(n) ==
    IF n < 10 THEN <<Digits[n + 1]>>
    ELSE Append(Decimal(n \div 10), Digits[(n % 10) + 1])

\* f"{n:0<width>d}": the decimal digits of n, left-padded with zeros to width.
RECURSIVE PadLeft(_, _)
PadLeft(s, width) == IF Len(s) >= width THEN s ELSE PadLeft(<<"0">> \o s, width)

ZeroPad(n, width) == PadLeft(Decimal(n), width)


(***************************************************************************)
(* Enumerations (models.py).                                               *)
(***************************************************************************)
OrderStatus == {"Waiting", "InProgress", "Completed", "Cancelled"}
WorkCenterStatus == {"Available", "Busy", "UnderMaintenance"}
OperationStatus == {"Waiting", "InProgress", "Completed", "Paused", "Cancelled"}
DieStatus == {"Draft", "Waiting", "Ready", "InProduction", "Completed"}

\* A nullable DateTime column holding NULL; the clock starts after it.
NoTime == 0

(***************************************************************************)
(* The database: one sequence per table, a row's id is its index.          *)
(***************************************************************************)
VARIABLES
    die,                   \* [die_number, status]
    die_component,         \* [die_id, component_type_id, theoretical_consumption_kg]
    component_bom,         \* [component_type_id, sequence_number, operation_name,
                           \*  work_center_id, estimated_duration_minutes, notes,
                           \*  deleted]
    work_center,           \* [status, deleted]
    production_order,      \* [die_id, order_number, status, started_at, completed_at]
    work_order,            \* [production_order_id, die_component_id, order_number,
                           \*  theoretical_consumption_kg, status]
    work_order_operation,  \* [work_order_id, sequence_number, operation_name,
                           \*  work_center_id, operator_name, status,
                           \*  estimated_duration_minutes, started_at, completed_at, notes]
    lot,                   \* [remaining_kg]
    stock_movement,        \* [lot_id, work_order_id, quantity_kg]
    sessions,              \* the requests that have read and not yet committed
    now,                   \* the wall clock read by datetime.utcnow() / datetime.now()
    response               \* the last request's handler and its HTTP status

vars == <<die, die_component, component_bom, work_center, production_order,
          work_order, work_order_operation, lot, stock_movement, sessions,
          now, response>>

tables == <<die, die_component, component_bom, work_center, production_order,
            work_order, work_order_operation, lot, stock_movement>>

Ids(table) == 1..Len(table)

\* The work centers that have not been deleted.
WorkCenterIds == {i \in Ids(work_center) : ~work_center[i].deleted}

\* The values of a column of a table.
Column(table, col) == {table[i][col] : i \in Ids(table)}

UE == <<"U", "E">>
IE == <<"I", "E">>
Hyphen == <<"-">>

(***************************************************************************)
(* order_number_helper.py                                                  *)
(***************************************************************************)
\* filter(die_id == d, order_number LIKE 'UE-<die_number>-%')
\* .order_by(order_number.desc()).first() over the rows lo..hi of
\* production_order: the greatest matching order number, or the empty string
\* when no row matches.  The table is searched by halves.
RECURSIVE GreatestMatching(_, _, _)
GreatestMatching(d, lo, hi) ==
    IF lo > hi THEN <<>>
    ELSE IF lo = hi
    THEN IF /\ production_order[lo].die_id = d
            /\ StartsWith(production_order[lo].order_number,
                          UE \o Hyphen \o die[d].die_number \o Hyphen)
         THEN production_order[lo].order_number
         ELSE <<>>
    ELSE LET mid == (lo + hi) \div 2
             low == GreatestMatching(d, lo, mid)
             high == GreatestMatching(d, mid + 1, hi)
         IN  IF StrLess(low, high) THEN high ELSE low

\* A numbering that counts the die's matching orders.
generate_production_order_number_by_count(d) ==
    LET base == UE \o Hyphen \o die[d].die_number
        found == {j \in Ids(production_order) :
                    /\ production_order[j].die_id = d
                    /\ StartsWith(production_order[j].order_number, base \o Hyphen)}
    IN  base \o Hyphen \o ZeroPad(Cardinality(found) + 1, 3)

generate_production_order_number(d) ==
    LET base == UE \o Hyphen \o die[d].die_number
        last == GreatestMatching(d, 1, Len(production_order))
        parts == Split(last, -1)
        parsed == ParseInt(parts[Len(parts)])
        seq == IF last /= <<>> /\ parsed.ok THEN parsed.val + 1 ELSE 1
    IN  base \o Hyphen \o ZeroPad(seq, 3)

\* A numbering that writes the index without padding.
generate_work_order_number_unpadded(d, po, index) ==
    LET parts == Split(po.order_number, 2)
        die_number == IF Len(parts) = 3 THEN parts[2] ELSE die[d].die_number
        po_seq == IF Len(parts) = 3 THEN parts[3] ELSE <<"0", "0", "1">>
    IN  IE \o Hyphen \o die_number \o Hyphen \o po_seq \o Hyphen \o Decimal(index)

generate_work_order_number(d, po, index) ==
    LET parts == Split(po.order_number, 2)
        die_number == IF Len(parts) = 3 THEN parts[2] ELSE die[d].die_number
        po_seq == IF Len(parts) = 3 THEN parts[3] ELSE <<"0", "0", "1">>
    IN  IE \o Hyphen \o die_number \o Hyphen \o po_seq \o Hyphen \o ZeroPad(index, 2)

(***************************************************************************)
(* Responses.  201/200 are successes, 400/404 are the handlers' own        *)
(* HTTPExceptions, 500 is an exception no handler catches (an              *)
(* IntegrityError raised by a flush or a commit).                          *)
(***************************************************************************)
Respond(handler, code) ==
    response' = [handler |-> handler, code |-> code]

\* Overwrite the columns a payload carries: for field, value in data.items():
\* setattr(row, field, value).
SetAttrs(row, data, fields) ==
    [f \in DOMAIN row |-> IF f \in fields THEN data[f] ELSE row[f]]

(***************************************************************************)
(* routers/production_orders.py                                            *)
(***************************************************************************)
create_production_order(die_id, status) ==
    IF die_id \notin Ids(die)
    THEN /\ Respond("create_production_order", 400)
         /\ UNCHANGED <<tables, sessions, now>>
    ELSE LET po == [die_id |-> die_id,
                    order_number |-> generate_production_order_number(die_id),
                    status |-> status,
                    started_at |-> NoTime,
                    completed_at |-> NoTime]
         IN  IF po.order_number \in Column(production_order, "order_number")
             THEN \* unique constraint on production_order.order_number
                  /\ Respond("create_production_order", 500)
                  /\ UNCHANGED <<tables, sessions, now>>
             ELSE /\ production_order' = Append(production_order, po)
                  /\ Respond("create_production_order", 201)
                  /\ UNCHANGED <<die, die_component, component_bom, work_center,
                                 work_order, work_order_operation,
                                 lot, stock_movement, sessions, now>>

\* sorted(die.components, key=lambda c: c.id)
ComponentsOf(d) ==
    SelectSeq([i \in Ids(die_component) |-> i],
              LAMBDA i : die_component[i].die_id = d)

\* query(ComponentBOM).filter(component_type_id == ct).order_by(sequence_number.asc());
\* rows of equal sequence_number are taken in id order.
RECURSIVE SortBom(_)
SortBom(S) ==
    IF S = {} THEN <<>>
    ELSE LET m == CHOOSE i \in S : \A j \in S :
                    \/ component_bom[i].sequence_number < component_bom[j].sequence_number
                    \/ /\ component_bom[i].sequence_number = component_bom[j].sequence_number
                       /\ i <= j
         IN  <<m>> \o SortBom(S \ {m})

BomOf(ct) ==
    SortBom({i \in Ids(component_bom) :
                /\ ~component_bom[i].deleted
                /\ component_bom[i].component_type_id = ct})

\* A copy that numbers the operations by the BOM row's estimated duration.
OperationFromBom_by_duration(wo_id, bom) ==
    [work_order_id |-> wo_id,
     sequence_number |-> bom.estimated_duration_minutes,
     operation_name |-> bom.operation_name,
     work_center_id |-> bom.work_center_id,
     operator_name |-> "",
     status |-> "Waiting",
     estimated_duration_minutes |-> bom.estimated_duration_minutes,
     started_at |-> NoTime,
     completed_at |-> NoTime,
     notes |-> bom.notes]

OperationFromBom(wo_id, bom) ==
    [work_order_id |-> wo_id,
     sequence_number |-> bom.sequence_number,
     operation_name |-> bom.operation_name,
     work_center_id |-> bom.work_center_id,
     operator_name |-> "",
     status |-> "Waiting",
     estimated_duration_minutes |-> bom.estimated_duration_minutes,
     started_at |-> NoTime,
     completed_at |-> NoTime,
     notes |-> bom.notes]

\* The loop of generate_work_orders_for_production_order over the remaining
\* components.  s is the session: the rows flushed or added so far, and whether
\* a flush has raised (the unique constraint on work_order.order_number).
RECURSIVE ExpandLoop(_, _, _, _)
ExpandLoop(po_id, comps, index, s) ==
    IF comps = <<>> \/ s.error THEN s
    ELSE LET po == production_order[po_id]
             c == Head(comps)
             wo == [production_order_id |-> po_id,
                    die_component_id |-> c,
                    order_number |-> generate_work_order_number(po.die_id, po, index),
                    theoretical_consumption_kg |->
                        die_component[c].theoretical_consumption_kg,
                    status |-> "Waiting"]
             wo_id == Len(s.work_order) + 1
             boms == BomOf(die_component[c].component_type_id)
             ops == [k \in 1..Len(boms) |-> OperationFromBom(wo_id, component_bom[boms[k]])]
         IN  IF wo.order_number \in Column(s.work_order, "order_number")
             THEN [s EXCEPT !.error = TRUE]
             ELSE ExpandLoop(po_id, Tail(comps), index + 1,
                             [work_order |-> Append(s.work_order, wo),
                              work_order_operation |-> s.work_order_operation \o ops,
                              error |-> FALSE])

\* A close that keeps what the failed request had flushed.
SessionKeepFlushed(committed, session) == session

\* get_db closes the session of a request that raised: what was flushed but
\* not committed is rolled back.
SessionClose(committed, session) == committed

\* Checks that let a die without components through.
expansion_precondition_without_components(id) ==
    IF id \notin Ids(production_order) THEN 404
    ELSE IF production_order[id].die_id \notin Ids(die) THEN 400
    ELSE 0

\* The handler's checks before the loop: 404, 400, or 0 to go on.
expansion_precondition(id) ==
    IF id \notin Ids(production_order) THEN 404
    ELSE IF production_order[id].die_id \notin Ids(die) THEN 400
    ELSE IF ComponentsOf(production_order[id].die_id) = <<>> THEN 400
    ELSE 0

\* A status flip that starts waiting orders only.
expanded_order_from_waiting(po) ==
    [po EXCEPT !.status = IF @ = "Waiting" THEN "InProgress" ELSE @,
               !.started_at = IF @ = NoTime THEN now ELSE @]

\* po.status = InProgress; if not po.started_at: po.started_at = utcnow()
expanded_order(po) ==
    [po EXCEPT !.status = "InProgress",
               !.started_at = IF @ = NoTime THEN now ELSE @]

\* die.status = InProduction
expanded_die(d) == [d EXCEPT !.status = "InProduction"]

generate_work_orders_for_production_order(id) ==
    IF expansion_precondition(id) /= 0
    THEN /\ Respond("generate_work_orders", expansion_precondition(id))
         /\ UNCHANGED <<tables, sessions, now>>
    ELSE LET po == production_order[id]
             committed == [work_order |-> work_order,
                           work_order_operation |-> work_order_operation,
                           error |-> FALSE]
             s == ExpandLoop(id, ComponentsOf(po.die_id), 1, committed)
         IN  IF s.error
             THEN /\ work_order' = SessionClose(committed, s).work_order
                  /\ work_order_operation' = SessionClose(committed, s).work_order_operation
                  /\ Respond("generate_work_orders", 500)
                  /\ UNCHANGED <<die, die_component, component_bom, work_center,
                                 production_order, lot, stock_movement,
                                 sessions, now>>
             ELSE /\ work_order' = s.work_order
                  /\ work_order_operation' = s.work_order_operation
                  /\ die' = [die EXCEPT ![po.die_id] = expanded_die(@)]
                  /\ production_order' =
                        [production_order EXCEPT ![id] = expanded_order(@)]
                  /\ Respond("generate_work_orders", 201)
                  /\ UNCHANGED <<die_component, component_bom, work_center, lot,
                                            stock_movement, sessions, now>>

\* data: the fields the request body sets (model_dump(exclude_unset=True)), none
\* of them an explicit null.
update_production_order(id, data) ==
    IF id \notin Ids(production_order)
    THEN /\ Respond("update_production_order", 404)
         /\ UNCHANGED <<tables, sessions, now>>
    ELSE LET po == production_order[id]
             with_status ==
                IF "status" \in DOMAIN data
                THEN [po EXCEPT
                        !.status = data.status,
                        !.started_at =
                            IF data.status = "InProgress" THEN now ELSE @,
                        !.completed_at =
                            IF data.status \in {"Completed", "Cancelled"} THEN now ELSE @]
                ELSE po
             updated == SetAttrs(with_status, data, DOMAIN data \ {"status"})
             others == {production_order[i].order_number :
                            i \in Ids(production_order) \ {id}}
         IN  IF updated.order_number \in others \/ updated.die_id \notin Ids(die)
             THEN \* unique constraint on order_number, foreign key on die_id
                  /\ Respond("update_production_order", 500)
                  /\ UNCHANGED <<tables, sessions, now>>
             ELSE /\ production_order' = [production_order EXCEPT ![id] = updated]
                  /\ Respond("update_production_order", 200)
                  /\ UNCHANGED <<die, die_component, component_bom, work_center,
                                 work_order, work_order_operation,
                                 lot, stock_movement, sessions, now>>

(***************************************************************************)
(* routers/dies.py                                                         *)
(***************************************************************************)
update_die(die_id, data) ==
    IF die_id \notin Ids(die)
    THEN /\ Respond("update_die", 404)
         /\ UNCHANGED <<tables, sessions, now>>
    ELSE /\ die' = [die EXCEPT ![die_id].status =
                        IF "status" \in DOMAIN data THEN data.status ELSE @]
         /\ Respond("update_die", 200)
         /\ UNCHANGED <<die_component, component_bom, work_center, production_order,
                        work_order, work_order_operation,
                        lot, stock_movement, sessions, now>>

(***************************************************************************)
(* routers/component_bom.py, against the ComponentBOM of models.py: the    *)
(* model has no operation_type_id and no preferred_work_center_id column,  *)
(* and no operation_type or preferred_work_center relationship.  A deleted *)
(* row keeps its place in the table with deleted = TRUE.                   *)
(***************************************************************************)
\* ComponentBOM(**payload.model_dump()) raises on operation_type_id.
create_bom_operation(payload) ==
    /\ Respond("create_bom_operation", 500)
    /\ UNCHANGED <<tables, sessions, now>>

\* A patch that also rewrites the operations copied from the row.
update_bom_operation_by_reference(id, data) ==
    IF id \notin Ids(component_bom) \/ component_bom[id].deleted
    THEN /\ Respond("update_bom_operation", 404)
         /\ UNCHANGED <<tables, sessions, now>>
    ELSE LET bom == component_bom[id]
             updated == SetAttrs(bom, data, DOMAIN data)
         IN  /\ component_bom' = [component_bom EXCEPT ![id] = updated]
             /\ work_order_operation' =
                   [o \in Ids(work_order_operation) |->
                      IF /\ work_order_operation[o].sequence_number = bom.sequence_number
                         /\ work_order_operation[o].operation_name = bom.operation_name
                      THEN [work_order_operation[o] EXCEPT
                              !.sequence_number = updated.sequence_number,
                              !.operation_name = updated.operation_name,
                              !.estimated_duration_minutes =
                                  updated.estimated_duration_minutes]
                      ELSE work_order_operation[o]]
             /\ Respond("update_bom_operation", 500)
             /\ UNCHANGED <<die, die_component, work_center, production_order,
                            work_order, lot, stock_movement, sessions, now>>

\* The setattr loop changes the mapped columns and sets plain attributes for
\* the others; the commit stores the row; the reload with
\* joinedload(ComponentBOM.operation_type) then raises.
update_bom_operation(id, data) ==
    IF id \notin Ids(component_bom) \/ component_bom[id].deleted
    THEN /\ Respond("update_bom_operation", 404)
         /\ UNCHANGED <<tables, sessions, now>>
    ELSE /\ component_bom' =
               [component_bom EXCEPT ![id] = SetAttrs(@, data, DOMAIN data)]
         /\ Respond("update_bom_operation", 500)
         /\ UNCHANGED <<die, die_component, work_center, production_order,
                        work_order, work_order_operation,
                        lot, stock_movement, sessions, now>>

delete_bom_operation(id) ==
    IF id \notin Ids(component_bom) \/ component_bom[id].deleted
    THEN /\ Respond("delete_bom_operation", 404)
         /\ UNCHANGED <<tables, sessions, now>>
    ELSE /\ component_bom' = [component_bom EXCEPT ![id].deleted = TRUE]
         /\ Respond("delete_bom_operation", 204)
         /\ UNCHANGED <<die, die_component, work_center, production_order,
                        work_order, work_order_operation,
                        lot, stock_movement, sessions, now>>

(***************************************************************************)
(* routers/work_orders.py: work orders                                     *)
(***************************************************************************)
create_work_order(payload) ==
    IF payload.order_number \in Column(work_order, "order_number")
    THEN /\ Respond("create_work_order", 400)
         /\ UNCHANGED <<tables, sessions, now>>
    ELSE IF payload.production_order_id \notin Ids(production_order) \/
            payload.die_component_id \notin Ids(die_component)
    THEN \* foreign keys of work_order
         /\ Respond("create_work_order", 500)
         /\ UNCHANGED <<tables, sessions, now>>
    ELSE /\ work_order' = Append(work_order, payload)
         /\ Respond("create_work_order", 201)
         /\ UNCHANGED <<die, die_component, component_bom, work_center,
                        production_order, work_order_operation,
                        lot, stock_movement, sessions, now>>

(***************************************************************************)
(* routers/work_orders.py: work order operations                           *)
(***************************************************************************)
create_work_order_operation(payload) ==
    IF payload.work_order_id \notin Ids(work_order) \/
       payload.work_center_id \notin WorkCenterIds
    THEN \* foreign keys of work_order_operation
         /\ Respond("create_work_order_operation", 500)
         /\ UNCHANGED <<tables, sessions, now>>
    ELSE /\ work_order_operation' =
                Append(work_order_operation,
                       [work_order_id |-> payload.work_order_id,
                        sequence_number |-> payload.sequence_number,
                        operation_name |-> payload.operation_name,
                        work_center_id |-> payload.work_center_id,
                        operator_name |-> "",
                        status |-> payload.status,
                        estimated_duration_minutes |-> payload.estimated_duration_minutes,
                        started_at |-> NoTime,
                        completed_at |-> NoTime,
                        notes |-> payload.notes])
         /\ Respond("create_work_order_operation", 201)
         /\ UNCHANGED <<die, die_component, component_bom, work_center,
                        production_order, work_order,
                        lot, stock_movement, sessions, now>>

\* A check that looks at the operation just before only.
not_completed_nearest(op) ==
    {p \in Ids(work_order_operation) :
        /\ work_order_operation[p].work_order_id = op.work_order_id
        /\ work_order_operation[p].sequence_number = op.sequence_number - 1
        /\ work_order_operation[p].status /= "Completed"}

\* previous_ops filtered to not_completed: the operations of the same work
\* order with a smaller sequence_number whose status is not Completed.
not_completed(op) ==
    {p \in Ids(work_order_operation) :
        /\ work_order_operation[p].work_order_id = op.work_order_id
        /\ work_order_operation[p].sequence_number < op.sequence_number
        /\ work_order_operation[p].status /= "Completed"}

\* The status branch of update_work_order_operation: the operation row after
\* it.  operator_name is bound only on the way to InProgress, and only when
\* the request carries a non-empty one.
with_new_status(op, data) ==
    LET new_status == data.status
    IN  IF new_status = "InProgress"
        THEN [op EXCEPT
                !.status = "InProgress",
                !.started_at = now,
                !.operator_name =
                    IF "operator_name" \in DOMAIN data /\ data.operator_name /= ""
                    THEN data.operator_name ELSE @]
        ELSE IF new_status \in {"Cancelled", "Completed"}
        THEN [op EXCEPT !.status = new_status, !.completed_at = now]
        ELSE [op EXCEPT !.status = new_status]

\* The fields left to the generic loop after the status branch has popped
\* status and, except on the way to Completed or Waiting, operator_name.
generic_fields(data) ==
    IF "status" \notin DOMAIN data THEN DOMAIN data
    ELSE IF data.status \in {"InProgress", "Paused", "Cancelled"}
    THEN DOMAIN data \ {"status", "operator_name"}
    ELSE DOMAIN data \ {"status"}

\* A side effect that releases the work center on Completed only.
work_center_after_completed(op, data) ==
    IF "status" \in DOMAIN data /\ op.work_center_id \in WorkCenterIds
    THEN IF data.status = "InProgress"
         THEN [work_center EXCEPT ![op.work_center_id].status = "Busy"]
         ELSE IF data.status = "Completed"
         THEN [work_center EXCEPT ![op.work_center_id].status = "Available"]
         ELSE work_center
    ELSE work_center

\* The work-center side effect of the status branch, on the work center the
\* operation references before the generic loop runs.
work_center_after(op, data) ==
    IF "status" \in DOMAIN data /\ op.work_center_id \in WorkCenterIds
    THEN IF data.status = "InProgress"
         THEN [work_center EXCEPT ![op.work_center_id].status = "Busy"]
         ELSE IF data.status \in {"Cancelled", "Completed"}
         THEN [work_center EXCEPT ![op.work_center_id].status = "Available"]
         ELSE work_center
    ELSE work_center

\* A handler that refuses the start only after the generic loop has run and
\* commits what the loop has written.
update_work_order_operation_partial(id, data) ==
    IF id \notin Ids(work_order_operation)
    THEN /\ Respond("update_work_order_operation", 404)
         /\ UNCHANGED <<tables, sessions, now>>
    ELSE LET op == work_order_operation[id]
             refused == /\ "status" \in DOMAIN data
                        /\ data.status = "InProgress"
                        /\ not_completed(op) /= {}
             staged == IF "status" \in DOMAIN data /\ ~refused
                       THEN with_new_status(op, data) ELSE op
         IN  /\ work_order_operation' =
                   [work_order_operation EXCEPT
                       ![id] = SetAttrs(staged, data, generic_fields(data))]
             /\ work_center' =
                   IF refused THEN work_center ELSE work_center_after(op, data)
             /\ Respond("update_work_order_operation", IF refused THEN 400 ELSE 200)
             /\ UNCHANGED <<die, die_component, component_bom, production_order,
                            work_order, lot, stock_movement, sessions, now>>

\* A handler that also closes the production order with its last operation.
update_work_order_operation_closing_order(id, data) ==
    IF id \notin Ids(work_order_operation)
    THEN /\ Respond("update_work_order_operation", 404)
         /\ UNCHANGED <<tables, sessions, now>>
    ELSE LET op == work_order_operation[id]
             staged == IF "status" \in DOMAIN data
                       THEN with_new_status(op, data) ELSE op
             operations == [work_order_operation EXCEPT ![id] = staged]
             open(po) == {o \in Ids(operations) :
                            /\ work_order[operations[o].work_order_id].production_order_id = po
                            /\ operations[o].status /= "Completed"}
         IN  /\ work_order_operation' = operations
             /\ work_center' = work_center_after(op, data)
             /\ production_order' =
                   [po \in Ids(production_order) |->
                       IF open(po) = {}
                       THEN [production_order[po] EXCEPT
                               !.status = "Completed", !.completed_at = now]
                       ELSE production_order[po]]
             /\ Respond("update_work_order_operation", 200)
             /\ UNCHANGED <<die, die_component, component_bom, work_order,
                            lot, stock_movement, sessions, now>>

update_work_order_operation(id, data) ==
    IF id \notin Ids(work_order_operation)
    THEN /\ Respond("update_work_order_operation", 404)
         /\ UNCHANGED <<tables, sessions, now>>
    ELSE LET op == work_order_operation[id]
         IN  IF /\ "status" \in DOMAIN data
                /\ data.status = "InProgress"
                /\ not_completed(op) /= {}
             THEN /\ Respond("update_work_order_operation", 400)
                  /\ UNCHANGED <<tables, sessions, now>>
             ELSE LET staged == IF "status" \in DOMAIN data
                                THEN with_new_status(op, data) ELSE op
                      updated == SetAttrs(staged, data, generic_fields(data))
                  IN  IF updated.work_order_id \notin Ids(work_order) \/
                         updated.work_center_id \notin WorkCenterIds
                      THEN \* foreign keys, checked by the commit
                           /\ Respond("update_work_order_operation", 500)
                           /\ UNCHANGED <<tables, sessions, now>>
                      ELSE /\ work_order_operation' =
                                [work_order_operation EXCEPT ![id] = updated]
                           /\ work_center' = work_center_after(op, data)
                           /\ Respond("update_work_order_operation", 200)
                           /\ UNCHANGED <<die, die_component, component_bom,
                                          production_order, work_order,
                                          lot, stock_movement, sessions, now>>

(***************************************************************************)
(* The same handler when requests overlap.  The handlers are plain def     *)
(* functions, which FastAPI runs on a thread pool, each with its own       *)
(* session; no query takes a row lock and the engine is created with the   *)
(* store's default isolation.  A request first reads (the operation, its   *)
(* earlier siblings, the work center) and stages its changes in the        *)
(* session; db.commit() then writes them.                                  *)
(***************************************************************************)
\* Each request in flight has a session of its own; a new one takes the first
\* free place of the pool.
FreeSession ==
    CHOOSE i \in 1..MaxSessions :
        /\ \A s \in sessions : s.sid /= i
        /\ \A j \in 1..(i - 1) : \E s \in sessions : s.sid = j

\* What the unit of work writes for a row: the columns whose staged value
\* differs from the loaded one, and no other column.
Dirty(loaded, updated) ==
    [f \in {g \in DOMAIN loaded : updated[g] /= loaded[g]} |-> updated[f]]

\* The row an UPDATE of these columns leaves.
Flushed(row, dirty) ==
    [f \in DOMAIN row |-> IF f \in DOMAIN dirty THEN dirty[f] ELSE row[f]]

\* Lines 460-549: everything before db.commit().
update_work_order_operation_read(id, data) ==
    IF id \notin Ids(work_order_operation)
    THEN /\ Respond("update_work_order_operation", 404)
         /\ UNCHANGED <<tables, sessions, now>>
    ELSE LET op == work_order_operation[id]
         IN  IF /\ "status" \in DOMAIN data
                /\ data.status = "InProgress"
                /\ not_completed(op) /= {}
             THEN /\ Respond("update_work_order_operation", 400)
                  /\ UNCHANGED <<tables, sessions, now>>
             ELSE LET staged == IF "status" \in DOMAIN data
                                THEN with_new_status(op, data) ELSE op
                      updated == SetAttrs(staged, data, generic_fields(data))
                      wc == work_center_after(op, data)
                  IN  /\ sessions' = sessions \cup
                            {[handler |-> "update_work_order_operation",
                              sid |-> FreeSession,
                              id |-> id,
                              work_order_id |-> updated.work_order_id,
                              work_center_id |-> updated.work_center_id,
                              dirty |-> Dirty(op, updated),
                              work_centers |->
                                  {[id |-> w, status |-> wc[w].status] :
                                      w \in {v \in Ids(work_center) :
                                                wc[v] /= work_center[v]}}]}
                      /\ UNCHANGED <<tables, now, response>>

\* Line 551: db.commit() of the session s.
update_work_order_operation_commit(s) ==
    IF s.work_order_id \notin Ids(work_order) \/
       s.work_center_id \notin WorkCenterIds
    THEN \* foreign keys, checked by the commit
         /\ sessions' = sessions \ {s}
         /\ Respond("update_work_order_operation", 500)
         /\ UNCHANGED <<tables, now>>
    ELSE /\ work_order_operation' =
              [work_order_operation EXCEPT
                  ![s.id] = Flushed(@, s.dirty)]
         /\ work_center' =
              [w \in Ids(work_center) |->
                  IF \E x \in s.work_centers : x.id = w
                  THEN [work_center[w] EXCEPT
                          !.status = (CHOOSE x \in s.work_centers : x.id = w).status]
                  ELSE work_center[w]]
         /\ sessions' = sessions \ {s}
         /\ Respond("update_work_order_operation", 200)
         /\ UNCHANGED <<die, die_component, component_bom, production_order,
                        work_order, lot, stock_movement, now>>

\* create_production_order, lines 125-136: everything before db.commit().
create_production_order_read(die_id, status) ==
    IF die_id \notin Ids(die)
    THEN /\ Respond("create_production_order", 400)
         /\ UNCHANGED <<tables, sessions, now>>
    ELSE /\ sessions' = sessions \cup
               {[handler |-> "create_production_order",
                 sid |-> FreeSession,
                 po |-> [die_id |-> die_id,
                         order_number |-> generate_production_order_number(die_id),
                         status |-> status,
                         started_at |-> NoTime,
                         completed_at |-> NoTime]]}
         /\ UNCHANGED <<tables, now, response>>

\* create_production_order, line 137: db.commit() of the session s.  The
\* IntegrityError of the unique constraint is not caught.
create_production_order_commit(s) ==
    IF s.po.order_number \in Column(production_order, "order_number")
    THEN /\ sessions' = sessions \ {s}
         /\ Respond("create_production_order", 500)
         /\ UNCHANGED <<tables, now>>
    ELSE /\ production_order' = Append(production_order, s.po)
         /\ sessions' = sessions \ {s}
         /\ Respond("create_production_order", 201)
         /\ UNCHANGED <<die, die_component, component_bom, work_center,
                        work_order, work_order_operation, lot, stock_movement,
                        now>>

(***************************************************************************)
(* routers/inventory.py: lots and stock movements                          *)
(***************************************************************************)
\* The steel stock items; no request of the model adds or removes one.
steel_stock_item == <<[alloy |-> "H13", diameter_mm |-> 200]>>

\* The rows that only component_bom references hold back.
work_center_dependents_in_bom(id) ==
    {<<"component_bom", b>> : b \in {c \in Ids(component_bom) :
        ~component_bom[c].deleted /\ component_bom[c].work_center_id = id}}

\* WorkCenter.component_boms and WorkCenter.work_order_operations: the rows
\* whose work_center_id the unit of work sets to NULL when it deletes the
\* work center (the relationships cascade nothing).
work_center_dependents(id) ==
    {<<"component_bom", b>> : b \in {c \in Ids(component_bom) :
        ~component_bom[c].deleted /\ component_bom[c].work_center_id = id}}
    \cup
    {<<"work_order_operation", o>> : o \in {p \in Ids(work_order_operation) :
        work_order_operation[p].work_center_id = id}}

delete_work_center(id) ==
    IF id \notin WorkCenterIds
    THEN /\ Respond("delete_work_center", 404)
         /\ UNCHANGED <<tables, sessions, now>>
    ELSE IF work_center_dependents(id) /= {}
    THEN \* work_center_id is NOT NULL in both tables: the commit raises
         /\ Respond("delete_work_center", 500)
         /\ UNCHANGED <<tables, sessions, now>>
    ELSE /\ work_center' = [work_center EXCEPT ![id].deleted = TRUE]
         /\ Respond("delete_work_center", 204)
         /\ UNCHANGED <<die, die_component, component_bom, production_order,
                        work_order, work_order_operation, lot, stock_movement,
                        sessions, now>>

create_lot(payload) ==
    IF payload.stock_item_id \notin Ids(steel_stock_item)
    THEN \* foreign key of lot
         /\ Respond("create_lot", 500)
         /\ UNCHANGED <<tables, sessions, now>>
    ELSE /\ lot' = Append(lot, [remaining_kg |-> payload.remaining_kg])
         /\ Respond("create_lot", 201)
         /\ UNCHANGED <<die, die_component, component_bom, work_center,
                        production_order, work_order, work_order_operation,
                        stock_movement, sessions, now>>

update_lot_remaining(lot_id, remaining_kg) ==
    IF lot_id \notin Ids(lot)
    THEN /\ Respond("update_lot_remaining", 404)
         /\ UNCHANGED <<tables, sessions, now>>
    ELSE /\ lot' = [lot EXCEPT ![lot_id].remaining_kg = remaining_kg]
         /\ Respond("update_lot_remaining", 200)
         /\ UNCHANGED <<die, die_component, component_bom, work_center,
                        production_order, work_order, work_order_operation,
                        stock_movement, sessions, now>>

create_stock_movement(payload) ==
    IF payload.lot_id \notin Ids(lot) \/ payload.work_order_id \notin Ids(work_order)
    THEN \* foreign keys of stock_movement
         /\ Respond("create_stock_movement", 500)
         /\ UNCHANGED <<tables, sessions, now>>
    ELSE /\ stock_movement' =
               Append(stock_movement,
                      [lot_id |-> payload.lot_id,
                       work_order_id |-> payload.work_order_id,
                       quantity_kg |-> payload.quantity_kg])
         /\ Respond("create_stock_movement", 201)
         /\ UNCHANGED <<die, die_component, component_bom, work_center,
                        production_order, work_order, work_order_operation,
                        lot, sessions, now>>

(***************************************************************************)
(* Time passes between requests.                                           *)
(***************************************************************************)
Tick ==
    /\ now < MaxTime
    /\ now' = now + 1
    /\ UNCHANGED <<tables, sessions, response>>

(***************************************************************************)
(* Initial states: the master data (dies, their components, the BOM of     *)
(* each component type, the work centers) is in place, nothing has been    *)
(* ordered yet.                                                            *)
(***************************************************************************)
Die100 == <<"1", "0", "0">>
Die7_1 == <<"7", "-", "1">>

InitDie ==
    <<[die_number |-> Die100, status |-> "Draft"],
      [die_number |-> Die7_1, status |-> "Draft"]>>

InitBom ==
    <<[component_type_id |-> 1, sequence_number |-> 2, operation_name |-> "Mill",
       work_center_id |-> 2, estimated_duration_minutes |-> 45, notes |-> "rough",
       deleted |-> FALSE],
      [component_type_id |-> 2, sequence_number |-> 1, operation_name |-> "Grind",
       work_center_id |-> 1, estimated_duration_minutes |-> 20, notes |-> "",
       deleted |-> FALSE],
      [component_type_id |-> 1, sequence_number |-> 1, operation_name |-> "Turn",
       work_center_id |-> 1, estimated_duration_minutes |-> 30, notes |-> "",
       deleted |-> FALSE],
      [component_type_id |-> 1, sequence_number |-> 3, operation_name |-> "Polish",
       work_center_id |-> 2, estimated_duration_minutes |-> 15, notes |-> "",
       deleted |-> FALSE]>>

InitWorkCenter ==
    <<[status |-> "Available", deleted |-> FALSE],
      [status |-> "Available", deleted |-> FALSE]>>

\* One lot of steel with 5 kg left.
InitLot == <<[remaining_kg |-> 5]>>

\* Die 100 with two components and die 7-1 with none; or die 100 with the
\* components 1 and 3 and die 7-1 with component 2.
ComponentConfigs ==
    { <<[die_id |-> 1, component_type_id |-> 1, theoretical_consumption_kg |-> 5],
        [die_id |-> 1, component_type_id |-> 2, theoretical_consumption_kg |-> 8]>>,
      <<[die_id |-> 1, component_type_id |-> 2, theoretical_consumption_kg |-> 8],
        [die_id |-> 2, component_type_id |-> 1, theoretical_consumption_kg |-> 5],
        [die_id |-> 1, component_type_id |-> 1, theoretical_consumption_kg |-> 3]>> }

NoResponse == [handler |-> "none", code |-> 0]

Init ==
    /\ die = InitDie
    /\ die_component \in ComponentConfigs
    /\ component_bom = InitBom
    /\ work_center = InitWorkCenter
    /\ production_order = <<>>
    /\ work_order = <<>>
    /\ work_order_operation = <<>>
    /\ lot = InitLot
    /\ stock_movement = <<>>
    /\ sessions = {}
    /\ now = 1
    /\ response = NoResponse

(***************************************************************************)
(* Requests.  An id one past the table's end stands for a row that does    *)
(* not exist.                                                              *)
(***************************************************************************)
RequestIds(table) == 1..(Len(table) + 1)

\* Order numbers a client may write with PATCH /production-orders/{id}.
PatchedNumbers ==
    { UE \o Hyphen \o Die100 \o Hyphen \o <<"9">>,
      UE \o Hyphen \o Die100 \o Hyphen \o <<"1", "0">>,
      UE \o Hyphen \o Die100 \o Hyphen \o <<"0", "A">>,
      <<"X">> }

\* A work order entered by hand with POST /work-orders.
ManualWorkOrders ==
    { [production_order_id |-> 1, die_component_id |-> 1,
       order_number |-> IE \o Hyphen \o Die100 \o Hyphen \o <<"0", "0", "1">>
                          \o Hyphen \o <<"0", "2">>,
       theoretical_consumption_kg |-> 1, status |-> "Waiting"] }

CreateProductionOrder(limit) ==
    /\ Len(production_order) < limit
    /\ \E d \in RequestIds(die) : create_production_order(d, "Waiting")

GenerateWorkOrders ==
    /\ Len(work_order) < MaxWorkOrders
    /\ \E id \in RequestIds(production_order) :
          generate_work_orders_for_production_order(id)

UpdateProductionOrderStatus ==
    \E id \in RequestIds(production_order), st \in OrderStatus :
        update_production_order(id, [status |-> st])

UpdateProductionOrderNumber ==
    \E id \in RequestIds(production_order), num \in PatchedNumbers :
        update_production_order(id, [order_number |-> num])

\* Renumbering to a later sequence number or to a text without hyphens.
RenumberProductionOrder ==
    \E id \in RequestIds(production_order),
       num \in {n \in PatchedNumbers : Len(n) = 1 \/ n[Len(n)] = "9"} :
        update_production_order(id, [order_number |-> num])

UpdateDie ==
    \E d \in RequestIds(die), st \in DieStatus : update_die(d, [status |-> st])

CreateWorkOrder ==
    /\ Len(work_order) < MaxWorkOrders
    /\ \E payload \in ManualWorkOrders : create_work_order(payload)

(***************************************************************************)
(* Expansion of production orders whose numbers clients may rewrite, next  *)
(* to work orders entered by hand.                                         *)
(***************************************************************************)
Next ==
    \/ CreateProductionOrder(MaxProductionOrders)
    \/ GenerateWorkOrders
    \/ RenumberProductionOrder
    \/ CreateWorkOrder

Spec == Init /\ [][Next]_vars

(***************************************************************************)
(* Production order numbering: orders are created and renumbered.          *)
(***************************************************************************)
NextNumbering ==
    \/ CreateProductionOrder(MaxNumberedOrders)
    \/ UpdateProductionOrderNumber

SpecNumbering == Init /\ [][NextNumbering]_vars

(***************************************************************************)
(* One production order has been created for die d and numbered by         *)
(* generate_production_order_number.                                       *)
(***************************************************************************)
InitOrdered(d) ==
    /\ die = InitDie
    /\ die_component \in ComponentConfigs
    /\ component_bom = InitBom
    /\ work_center = InitWorkCenter
    /\ production_order =
          <<[die_id |-> d,
             order_number |-> UE \o Hyphen \o InitDie[d].die_number
                                 \o Hyphen \o <<"0", "0", "1">>,
             status |-> "Waiting", started_at |-> NoTime, completed_at |-> NoTime]>>
    /\ work_order = <<>>
    /\ work_order_operation = <<>>
    /\ lot = InitLot
    /\ stock_movement = <<>>
    /\ sessions = {}
    /\ now = 1
    /\ response = [handler |-> "create_production_order", code |-> 201]

(***************************************************************************)
(* Statuses of a production order and its die.                             *)
(***************************************************************************)
NextStatus ==
    \/ GenerateWorkOrders
    \/ UpdateProductionOrderStatus
    \/ UpdateDie

SpecStatus == (\E d \in Ids(InitDie) : InitOrdered(d)) /\ [][NextStatus]_vars

(***************************************************************************)
(* The timestamps of a production order as time passes.                    *)
(***************************************************************************)
NextStarted ==
    \/ GenerateWorkOrders
    \/ UpdateProductionOrderStatus
    \/ Tick

SpecStarted == (\E d \in Ids(InitDie) : InitOrdered(d)) /\ [][NextStarted]_vars

(***************************************************************************)
(* The operation status machine on the work order of one production order: *)
(* die 7-1 has one component, of a type with three BOM rows, and has been  *)
(* ordered once.                                                           *)
(***************************************************************************)
InitOperations ==
    /\ InitOrdered(2)
    /\ Len(die_component) = 3

\* Operations entered by hand with POST /work-order-operations.
ManualOperations ==
    { [work_order_id |-> 1, sequence_number |-> 4, operation_name |-> "Inspect",
       work_center_id |-> 2, estimated_duration_minutes |-> 10, notes |-> "",
       status |-> st] : st \in {"Waiting", "InProgress"} }

\* Sequence numbers a client may write with PATCH /work-order-operations/{id}.
PatchedSequenceNumbers == {3}

UpdateOperationStatus ==
    \E id \in RequestIds(work_order_operation), st \in OperationStatus :
        update_work_order_operation(id, [status |-> st])

\* Starting and completing only.
UpdateOperationProgress ==
    \E id \in Ids(work_order_operation), st \in {"InProgress", "Completed"} :
        update_work_order_operation(id, [status |-> st])

UpdateOperationSequence ==
    \E id \in Ids(work_order_operation), n \in PatchedSequenceNumbers :
        update_work_order_operation(id, [sequence_number |-> n])

UpdateOperationWorkOrder ==
    \E id \in Ids(work_order_operation), w \in RequestIds(work_order) :
        update_work_order_operation(id, [work_order_id |-> w])

CreateOperation ==
    /\ Len(work_order_operation) < MaxOperations
    /\ \E payload \in ManualOperations : create_work_order_operation(payload)

NextOperations ==
    \/ GenerateWorkOrders
    \/ UpdateOperationStatus

SpecOperations == InitOperations /\ [][NextOperations]_vars

(***************************************************************************)
(* The same machine next to the requests that edit the operation list.     *)
(***************************************************************************)
NextOperationsEdit ==
    \/ GenerateWorkOrders
    \/ UpdateOperationProgress
    \/ UpdateOperationSequence
    \/ UpdateOperationWorkOrder
    \/ CreateOperation

SpecOperationsEdit == InitOperations /\ [][NextOperationsEdit]_vars

(***************************************************************************)
(* BOM edits next to the expansion of the production order of die 7-1.     *)
(***************************************************************************)
\* A BOM row a client may send with POST /component-bom.
NewBomRows ==
    { [component_type_id |-> 1, sequence_number |-> 4, operation_type_id |-> 1,
       operation_name |-> "Hone", preferred_work_center_id |-> 1,
       estimated_duration_minutes |-> 60, notes |-> ""] }

\* A body a client may send with PATCH /component-bom/{id}.
PatchedBomRows ==
    { [sequence_number |-> 4, operation_name |-> "Hone",
       estimated_duration_minutes |-> 60, preferred_work_center_id |-> 1] }

CreateBomOperation ==
    \E payload \in NewBomRows : create_bom_operation(payload)

UpdateBomOperation ==
    \E id \in RequestIds(component_bom), data \in PatchedBomRows :
        update_bom_operation(id, data)

DeleteBomOperation ==
    \E id \in RequestIds(component_bom) : delete_bom_operation(id)

NextBom ==
    \/ GenerateWorkOrders
    \/ CreateBomOperation
    \/ UpdateBomOperation
    \/ DeleteBomOperation

SpecBom == InitOperations /\ [][NextBom]_vars

(***************************************************************************)
(* Operations are started and finished; a finishing request may carry a    *)
(* new work center as well.                                                *)
(***************************************************************************)
\* Bodies of PATCH /work-order-operations/{id} that complete or cancel.
FinishRequests ==
    { [status |-> st] : st \in {"Completed", "Cancelled"} } \cup
    { [status |-> st, work_center_id |-> 2] : st \in {"Completed", "Cancelled"} }

UpdateOperationStart ==
    \E id \in Ids(work_order_operation) :
        update_work_order_operation(id, [status |-> "InProgress"])

UpdateOperationFinish ==
    \E id \in Ids(work_order_operation), data \in FinishRequests :
        update_work_order_operation(id, data)

NextRelease ==
    \/ GenerateWorkOrders
    \/ UpdateOperationStart
    \/ UpdateOperationFinish

SpecRelease == InitOperations /\ [][NextRelease]_vars

(***************************************************************************)
(* Operations are started, paused and resumed as time passes.              *)
(***************************************************************************)
\* Bodies of PATCH /work-order-operations/{id} that start an operation.
StartRequests ==
    { [status |-> "InProgress"],
      [status |-> "InProgress", operator_name |-> "Ali"] }

UpdateOperationStartBy ==
    \E id \in Ids(work_order_operation), data \in StartRequests :
        update_work_order_operation(id, data)

UpdateOperationPause ==
    \E id \in Ids(work_order_operation) :
        update_work_order_operation(id, [status |-> "Paused"])

NextResume ==
    \/ GenerateWorkOrders
    \/ UpdateOperationStartBy
    \/ UpdateOperationPause
    \/ Tick

SpecResume == InitOperations /\ [][NextResume]_vars

(***************************************************************************)
(* Requests that write non-status fields, alone or next to a status.       *)
(***************************************************************************)
\* Bodies of PATCH /work-order-operations/{id} with operator_name, notes and
\* estimated_duration_minutes, without a status and with each status a
\* transition is requested with.
FieldRequests ==
    { [operator_name |-> "Ali", notes |-> "checked",
       estimated_duration_minutes |-> 99] } \cup
    { [status |-> st, operator_name |-> "Ali", notes |-> "checked",
       estimated_duration_minutes |-> 99] :
         st \in {"InProgress", "Paused", "Cancelled", "Completed"} }

UpdateOperationFields ==
    \E id \in Ids(work_order_operation), data \in FieldRequests :
        update_work_order_operation(id, data)

NextFields ==
    \/ GenerateWorkOrders
    \/ UpdateOperationFields

SpecFields == InitOperations /\ [][NextFields]_vars

(***************************************************************************)
(* The stock ledger next to the work order of one production order.        *)
(***************************************************************************)
\* Bodies a client may send with POST /stock-movements.
StockMovements ==
    { [lot_id |-> l, work_order_id |-> 1, quantity_kg |-> q, movement_date |-> 1] :
        l \in RequestIds(InitLot), q \in {2, 9} }

\* Bodies a client may send with POST /lots.
NewLots ==
    { [stock_item_id |-> s, gross_weight_kg |-> 4, remaining_kg |-> kg] :
        s \in RequestIds(steel_stock_item), kg \in {4, -1} }

\* Amounts a client may write with PATCH /lots/{lot_id}/remaining.
PatchedRemaining == {0, 3, -1}

CreateLot ==
    /\ Len(lot) < MaxLots
    /\ \E payload \in NewLots : create_lot(payload)

CreateStockMovement ==
    /\ Len(stock_movement) < MaxMovements
    /\ \E payload \in StockMovements : create_stock_movement(payload)

UpdateLotRemaining ==
    \E l \in RequestIds(lot), kg \in PatchedRemaining : update_lot_remaining(l, kg)

NextStock ==
    \/ GenerateWorkOrders
    \/ CreateStockMovement
    \/ CreateLot
    \/ UpdateLotRemaining

SpecStock == InitOperations /\ [][NextStock]_vars

(***************************************************************************)
(* Overlapping status requests on the operations of one work order.        *)
(***************************************************************************)
\* The statuses the overlapping requests ask for.
OverlappingStatuses == {"InProgress", "Completed", "Paused"}

\* The operations they address: the first two of the work order.
OverlappingIds == 1..2

ReadOperationUpdate ==
    /\ Cardinality(sessions) < MaxSessions
    /\ \E id \in OverlappingIds, st \in OverlappingStatuses :
            update_work_order_operation_read(id, [status |-> st])

CommitOperationUpdate ==
    \E s \in sessions : update_work_order_operation_commit(s)

NextOverlap ==
    \/ GenerateWorkOrders
    \/ ReadOperationUpdate
    \/ CommitOperationUpdate

SpecOverlap == InitOperations /\ [][NextOverlap]_vars

(***************************************************************************)
(* Overlapping creations of production orders.                             *)
(***************************************************************************)
ReadOrderCreation ==
    /\ Cardinality(sessions) < MaxSessions
    /\ Len(production_order) + Cardinality(sessions) < MaxNumberedOrders
    /\ \E d \in RequestIds(die) : create_production_order_read(d, "Waiting")

CommitOrderCreation ==
    \E s \in sessions : create_production_order_commit(s)

NextOverlapOrders ==
    \/ ReadOrderCreation
    \/ CommitOrderCreation

SpecOverlapOrders == Init /\ [][NextOverlapOrders]_vars

(***************************************************************************)
(* Work centers are deleted next to BOM deletions and the expansion.       *)
(***************************************************************************)
DeleteWorkCenter ==
    \E id \in RequestIds(work_center) : delete_work_center(id)

NextWorkCenter ==
    \/ GenerateWorkOrders
    \/ DeleteBomOperation
    \/ DeleteWorkCenter

SpecWorkCenter == InitOperations /\ [][NextWorkCenter]_vars

(***************************************************************************)
(* Operations are started and completed next to patches of the production  *)
(* order's status.                                                         *)
(***************************************************************************)
NextCompletion ==
    \/ GenerateWorkOrders
    \/ UpdateOperationProgress
    \/ UpdateProductionOrderStatus

SpecCompletion == InitOperations /\ [][NextCompletion]_vars

(***************************************************************************)
(* A long history: die 100 has had MaxHistory production orders, each      *)
(* created by create_production_order, and more are created for both dies. *)
(***************************************************************************)
\* The table after n creations for die 100.
History(n) ==
    [i \in 1..n |->
        [die_id |-> 1,
         order_number |-> UE \o Hyphen \o Die100 \o Hyphen \o ZeroPad(i, 3),
         status |-> "Waiting",
         started_at |-> NoTime,
         completed_at |-> NoTime]]

InitHistory ==
    /\ die = InitDie
    /\ die_component \in ComponentConfigs
    /\ component_bom = InitBom
    /\ work_center = InitWorkCenter
    /\ production_order = History(MaxHistory)
    /\ work_order = <<>>
    /\ work_order_operation = <<>>
    /\ lot = InitLot
    /\ stock_movement = <<>>
    /\ sessions = {}
    /\ now = 1
    /\ response = NoResponse

CreateLateProductionOrder == CreateProductionOrder(MaxHistory + MaxLateOrders)

NextHistory == CreateLateProductionOrder

SpecHistory == InitHistory /\ [][NextHistory]_vars

(***************************************************************************)
(* Two work orders: the production order of die 100 with its components of *)
(* types 1 and 2, whose first operations are both at work center 1.        *)
(***************************************************************************)
InitShared ==
    /\ InitOrdered(1)
    /\ Len(die_component) = 2

NextShared ==
    \/ GenerateWorkOrders
    \/ UpdateOperationProgress

SpecShared == InitShared /\ [][NextShared]_vars

(***************************************************************************)
(* Properties of the operation status machine.                             *)
(***************************************************************************)

\* The operations of the same work order with a smaller sequence number.
EarlierSiblings(id) ==
    {p \in Ids(work_order_operation) :
        /\ work_order_operation[p].work_order_id = work_order_operation[id].work_order_id
        /\ work_order_operation[p].sequence_number <
              work_order_operation[id].sequence_number}

\* C1: a request that sets an operation's status to InProgress succeeds only
\* if every operation of the same work order with a strictly smaller
\* sequence_number is Completed at that moment; otherwise it is refused with
\* the sequence-dependency error (400) and nothing changes.
C1_StartNeedsCompletedPredecessors ==
    [][\A id \in Ids(work_order_operation) :
          update_work_order_operation(id, [status |-> "InProgress"]) =>
             IF \A p \in EarlierSiblings(id) :
                    work_order_operation[p].status = "Completed"
             THEN /\ response'.code = 200
                  /\ work_order_operation'[id].status = "InProgress"
             ELSE /\ response'.code = 400
                  /\ UNCHANGED tables]_vars

\* A start has been refused in a work order whose first operation is
\* Completed and whose second is not.
C1_Witness ==
    /\ response = [handler |-> "update_work_order_operation", code |-> 400]
    /\ \E a, b, c \in Ids(work_order_operation) :
          /\ a \in EarlierSiblings(b)
          /\ b \in EarlierSiblings(c)
          /\ work_order_operation[a].status = "Completed"
          /\ work_order_operation[b].status \notin {"Completed", "InProgress"}
          /\ work_order_operation[c].status = "Waiting"

\* C2: in every reachable state no operation is InProgress while an operation
\* of the same work order with a smaller sequence_number is not Completed.
C2_NoStartedOperationAheadOfOpenOne ==
    \A id \in Ids(work_order_operation) :
        work_order_operation[id].status = "InProgress" =>
            \A p \in EarlierSiblings(id) :
                work_order_operation[p].status = "Completed"

(***************************************************************************)
(* Properties of the expansion of a production order into work orders.     *)
(***************************************************************************)

\* The components of the die of production order id.
OrderComponents(id) ==
    {c \in Ids(die_component) : die_component[c].die_id = production_order[id].die_id}

\* The BOM rows of the component type of component c.
ComponentBomRows(c) ==
    {b \in Ids(component_bom) :
        /\ ~component_bom[b].deleted
        /\ component_bom[b].component_type_id = die_component[c].component_type_id}

\* The rows a step appends to a table.
Appended(before, after) == (Len(before) + 1)..Len(after)

Kept(before, after) ==
    /\ Len(after) >= Len(before)
    /\ \A i \in Ids(before) : after[i] = before[i]

\* C3: a successful expansion of a production order whose die has N components
\* creates exactly N work orders, one per component, with status Waiting and
\* the component's theoretical_consumption_kg, and for each work order exactly
\* one operation per BOM row of the component's type, with the row's
\* sequence_number, operation_name, work center and estimated duration, and
\* status Waiting.
C3_ExpansionCreatesOrdersAndOperations ==
    [][\A id \in Ids(production_order) :
          (generate_work_orders_for_production_order(id) /\ response'.code = 201) =>
             LET new_wo == Appended(work_order, work_order')
                 new_op == Appended(work_order_operation, work_order_operation')
             IN  /\ Kept(work_order, work_order')
                 /\ Kept(work_order_operation, work_order_operation')
                 /\ Cardinality(new_wo) = Cardinality(OrderComponents(id))
                 /\ \A c \in OrderComponents(id) :
                       Cardinality({w \in new_wo :
                                      work_order'[w].die_component_id = c}) = 1
                 /\ \A w \in new_wo :
                       /\ work_order'[w].production_order_id = id
                       /\ work_order'[w].status = "Waiting"
                       /\ work_order'[w].die_component_id \in OrderComponents(id)
                       /\ work_order'[w].theoretical_consumption_kg =
                             die_component[work_order'[w].die_component_id]
                                .theoretical_consumption_kg
                 /\ \A o \in new_op :
                       /\ work_order_operation'[o].work_order_id \in new_wo
                       /\ work_order_operation'[o].status = "Waiting"
                 /\ \A w \in new_wo :
                       LET rows == ComponentBomRows(work_order'[w].die_component_id)
                           ops == {o \in new_op :
                                     work_order_operation'[o].work_order_id = w}
                       IN  /\ Cardinality(ops) = Cardinality(rows)
                           /\ \A b \in rows :
                                 Cardinality({o \in ops :
                                    /\ work_order_operation'[o].sequence_number =
                                          component_bom[b].sequence_number
                                    /\ work_order_operation'[o].operation_name =
                                          component_bom[b].operation_name
                                    /\ work_order_operation'[o].work_center_id =
                                          component_bom[b].work_center_id
                                    /\ work_order_operation'[o].estimated_duration_minutes =
                                          component_bom[b].estimated_duration_minutes}) = 1]_vars

\* An expansion has succeeded for a die with two components, one of a type
\* with three BOM rows and one of a type with one.
C3_Witness ==
    /\ response = [handler |-> "generate_work_orders", code |-> 201]
    /\ \E v, w \in Ids(work_order) :
          /\ v /= w
          /\ work_order[v].production_order_id = work_order[w].production_order_id
          /\ Cardinality({o \in Ids(work_order_operation) :
                            work_order_operation[o].work_order_id = v}) = 3
          /\ Cardinality({o \in Ids(work_order_operation) :
                            work_order_operation[o].work_order_id = w}) = 1

\* The text of s after its first hyphen; empty when s has none.
RECURSIVE AfterFirstHyphen(_)
AfterFirstHyphen(s) ==
    IF s = <<>> THEN <<>>
    ELSE IF Head(s) = "-" THEN Tail(s)
    ELSE AfterFirstHyphen(Tail(s))

\* The text of s after its last hyphen; s itself when it has none.
RECURSIVE TrailingSegment(_)
TrailingSegment(s) ==
    IF \A i \in 1..Len(s) : s[i] /= "-" THEN s
    ELSE TrailingSegment(AfterFirstHyphen(s))

HyphenCount(s) == Cardinality({i \in 1..Len(s) : s[i] = "-"})

\* k written with two digits, for k below 100.
TwoDigits(k) == <<Digits[(k \div 10) + 1], Digits[(k % 10) + 1]>>

\* The position of component c among the components of its die, in
\* ascending id order, counted from 1.
Rank(id, c) == Cardinality({x \in OrderComponents(id) : x <= c})

\* The number of the work order that a successful expansion of production
\* order id has created for component c.
NewNumberOf(id, c) ==
    LET w == CHOOSE w \in Appended(work_order, work_order') :
                 work_order'[w].die_component_id = c
    IN  work_order'[w].order_number

\* C4 as stated: the k-th component in ascending id order receives
\* IE-<DIE_CODE>-<PO_SEQ>-<k in 2 digits>, PO_SEQ being the trailing segment of
\* the production order's number.
C4_NumberFromTrailingSegment ==
    [][\A id \in Ids(production_order) :
          (generate_work_orders_for_production_order(id) /\ response'.code = 201) =>
             \A c \in OrderComponents(id) :
                NewNumberOf(id, c) =
                    IE \o Hyphen \o die[production_order[id].die_id].die_number
                       \o Hyphen \o TrailingSegment(production_order[id].order_number)
                       \o Hyphen \o TwoDigits(Rank(id, c))]_vars

\* C4: the k-th component in ascending id order receives IE-<rest>-<k in 2
\* digits> where, for a production order number with at least two hyphens,
\* <rest> is that number without its first segment (<DIE_CODE>-<PO_SEQ> for a
\* number UE-<DIE_CODE>-<PO_SEQ>), and otherwise <rest> is the die's number
\* followed by -001.
C4_NumberFromOrderNumber ==
    [][\A id \in Ids(production_order) :
          (generate_work_orders_for_production_order(id) /\ response'.code = 201) =>
             \A c \in OrderComponents(id) :
                NewNumberOf(id, c) =
                    IE \o Hyphen
                       \o (IF HyphenCount(production_order[id].order_number) >= 2
                           THEN AfterFirstHyphen(production_order[id].order_number)
                           ELSE die[production_order[id].die_id].die_number
                                   \o Hyphen \o <<"0", "0", "1">>)
                       \o Hyphen \o TwoDigits(Rank(id, c))]_vars

\* A production order renumbered to a text without hyphens has been expanded:
\* its second work order is numbered after the die, with 001.
C4_Witness ==
    /\ response = [handler |-> "generate_work_orders", code |-> 201]
    /\ \E i \in Ids(production_order), w \in Ids(work_order) :
          /\ production_order[i].order_number = <<"X">>
          /\ work_order[w].production_order_id = i
          /\ work_order[w].order_number =
                IE \o Hyphen \o Die100 \o Hyphen \o <<"0", "0", "1">>
                   \o Hyphen \o <<"0", "2">>

(***************************************************************************)
(* Properties of the production order numbering.                           *)
(***************************************************************************)

\* The order numbers of the production orders of die d.
NumbersOf(d) ==
    {production_order[i].order_number :
        i \in {j \in Ids(production_order) : production_order[j].die_id = d}}

\* UE-<DIE_CODE>-
PrefixOf(d) == UE \o Hyphen \o die[d].die_number \o Hyphen

HasPrefix(s, prefix) ==
    /\ Len(s) >= Len(prefix)
    /\ SubSeq(s, 1, Len(prefix)) = prefix

\* The number that follows the lexicographically greatest of the numbers S:
\* its trailing segment plus one in at least three digits, or 001 when S is
\* empty or that segment is not a numeral.
Following(d, S) ==
    LET greatest == CHOOSE n \in S : \A m \in S : m = n \/ StrLess(m, n)
        segment == TrailingSegment(greatest)
        numeric == segment /= <<>> /\ \A i \in 1..Len(segment) : segment[i] \in
                                                {Digits[k] : k \in 1..10}
        next == IF S /= {} /\ numeric THEN DigitsValue(segment, 0) + 1 ELSE 1
    IN  PrefixOf(d) \o (IF next < 10 THEN <<"0", "0">>
                        ELSE IF next < 100 THEN <<"0">> ELSE <<>>)
                    \o Decimal(next)

\* C5 as stated: generate_production_order_number returns UE-<DIE_CODE>-001
\* when the die has no production order, and otherwise the number following the
\* lexicographically greatest order number of that die.
C5_NextAfterGreatestOfDie ==
    \A d \in Ids(die) :
        generate_production_order_number(d) = Following(d, NumbersOf(d))

\* C5: generate_production_order_number returns UE-<DIE_CODE>-001 when the
\* die has no production order whose number starts with UE-<DIE_CODE>-, and
\* otherwise UE-<DIE_CODE>-<m+1 in 3 digits> where m is the trailing numeric
\* segment of the lexicographically greatest of the die's order numbers that
\* start with UE-<DIE_CODE>-; if that segment is not numeric, UE-<DIE_CODE>-001.
C5_NextAfterGreatestWithPrefix ==
    \A d \in Ids(die) :
        generate_production_order_number(d) =
            Following(d, {n \in NumbersOf(d) : HasPrefix(n, PrefixOf(d))})

\* The newest production order of die 100 has been numbered 002 while the
\* die also has an order renumbered to X.
C5_Witness ==
    /\ response = [handler |-> "create_production_order", code |-> 201]
    /\ production_order /= <<>>
    /\ production_order[Len(production_order)].order_number =
          UE \o Hyphen \o Die100 \o Hyphen \o <<"0", "0", "2">>
    /\ <<"X">> \in NumbersOf(production_order[Len(production_order)].die_id)

(***************************************************************************)
(* Failure, repetition and side effects of the expansion.                  *)
(***************************************************************************)

\* C6: expansion is all-or-nothing: when it fails after it has started
\* creating records, none of the work orders or operations it created is
\* persisted, and the die status, the production order status and started_at
\* are unchanged.
C6_FailedExpansionLeavesNothing ==
    [][\A id \in Ids(production_order) :
          (generate_work_orders_for_production_order(id) /\ response'.code = 500) =>
             UNCHANGED tables]_vars

\* An expansion of UE-100-001 has failed on its second work order: the number
\* of the second is taken, the number of the first is not in the table.
C6_Witness ==
    /\ response = [handler |-> "generate_work_orders", code |-> 500]
    /\ Len(production_order) = 1
    /\ production_order[1].order_number =
          UE \o Hyphen \o Die100 \o Hyphen \o <<"0", "0", "1">>
    /\ (IE \o Hyphen \o Die100 \o Hyphen \o <<"0", "0", "1">> \o Hyphen \o <<"0", "2">>)
          \in Column(work_order, "order_number")
    /\ (IE \o Hyphen \o Die100 \o Hyphen \o <<"0", "0", "1">> \o Hyphen \o <<"0", "1">>)
          \notin Column(work_order, "order_number")

\* C7: expansion of a production order that does not exist fails with not
\* found (404), expansion of a production order whose die has no components
\* fails with an invalid request (400); in both cases no work order or
\* operation is created and no status is changed.
C7_ExpansionPreconditions ==
    [][\A id \in RequestIds(production_order) :
          generate_work_orders_for_production_order(id) =>
             /\ id \notin Ids(production_order) =>
                   response'.code = 404 /\ UNCHANGED tables
             /\ (id \in Ids(production_order) /\ OrderComponents(id) = {}) =>
                   response'.code = 400 /\ UNCHANGED tables]_vars

\* The expansion of an order of a die without components has been refused.
C7_Witness ==
    /\ response = [handler |-> "generate_work_orders", code |-> 400]
    /\ \E id \in Ids(production_order) : OrderComponents(id) = {}

\* The work orders of production order id for component c.
WorkOrdersFor(table, id, c) ==
    {w \in Ids(table) :
        /\ table[w].production_order_id = id
        /\ table[w].die_component_id = c}

\* C8: an expansion call on a production order that has one work order per
\* component of its die either fails or creates no work order: the order still
\* has exactly one work order per component.
C8_ReexpansionAddsNoWorkOrders ==
    [][\A id \in Ids(production_order) :
          (/\ generate_work_orders_for_production_order(id)
           /\ OrderComponents(id) /= {}
           /\ \A c \in OrderComponents(id) :
                 Cardinality(WorkOrdersFor(work_order, id, c)) = 1) =>
             \A c \in OrderComponents(id) :
                Cardinality(WorkOrdersFor(work_order', id, c)) = 1]_vars

\* C9: after a successful expansion the die's status is InProduction and the
\* production order's status is InProgress, whatever they were before.
C9_ExpansionFlipsStatuses ==
    [][\A id \in Ids(production_order) :
          (generate_work_orders_for_production_order(id) /\ response'.code = 201) =>
             /\ die'[production_order[id].die_id].status = "InProduction"
             /\ production_order'[id].status = "InProgress"]_vars

\* An order that had been completed or cancelled has been expanded.
C9_Witness ==
    /\ response = [handler |-> "generate_work_orders", code |-> 201]
    /\ \E id \in Ids(production_order) :
          /\ production_order[id].completed_at /= NoTime
          /\ production_order[id].status = "InProgress"
          /\ die[production_order[id].die_id].status = "InProduction"

\* C10: a production order's started_at is set once: once it has a value, no
\* later request replaces it with a different value.
C10_StartedAtSetOnce ==
    [][\A id \in Ids(production_order) :
          production_order[id].started_at /= NoTime =>
             production_order'[id].started_at = production_order[id].started_at]_vars

(***************************************************************************)
(* The operations of a work order under later edits.                       *)
(***************************************************************************)

\* C11: creating, updating or deleting a BOM row after a work order was
\* expanded leaves every operation of that work order unchanged: the same
\* operations, with the same sequence_number, operation_name, work center and
\* duration.
C11_BomEditsLeaveOperations ==
    [][(CreateBomOperation \/ UpdateBomOperation \/ DeleteBomOperation) =>
          UNCHANGED <<work_order, work_order_operation>>]_vars

\* A BOM row has been patched or deleted after the expansion: an operation of
\* the work order has no BOM row with its sequence_number and name any more.
C11_Witness ==
    /\ response.handler \in {"update_bom_operation", "delete_bom_operation"}
    /\ response.code \in {500, 204}
    /\ \E o \in Ids(work_order_operation) :
          \A b \in Ids(component_bom) :
             \/ component_bom[b].deleted
             \/ component_bom[b].sequence_number /=
                   work_order_operation[o].sequence_number
             \/ component_bom[b].operation_name /=
                   work_order_operation[o].operation_name

\* The operations of work order w in an operation table.
OperationsOf(table, w) == {o \in Ids(table) : table[o].work_order_id = w}

\* C12: the set of operations of a work order is fixed at expansion time: no
\* later request adds an operation to, removes one from, or moves one into or
\* out of an existing work order.
C12_OperationSetFixed ==
    [][\A w \in Ids(work_order) :
          OperationsOf(work_order_operation', w) =
             OperationsOf(work_order_operation, w)]_vars

\* C13: in every reachable state no two operations of the same work order
\* have the same sequence_number.
C13_SequenceNumbersUnique ==
    \A o, p \in Ids(work_order_operation) :
        (/\ o /= p
         /\ work_order_operation[o].work_order_id =
               work_order_operation[p].work_order_id) =>
            work_order_operation[o].sequence_number /=
               work_order_operation[p].sequence_number

(***************************************************************************)
(* The transitions of the operation status machine.                        *)
(***************************************************************************)

\* C14: Completed and Cancelled are terminal: once an operation's status is
\* Completed or Cancelled, no later status request changes it.
C14_TerminalStatuses ==
    [][\A id \in Ids(work_order_operation) :
          work_order_operation[id].status \in {"Completed", "Cancelled"} =>
             work_order_operation'[id].status = work_order_operation[id].status]_vars

\* C15: an operation's status becomes Completed only from InProgress.
C15_CompletedOnlyFromInProgress ==
    [][\A id \in Ids(work_order_operation) :
          (/\ work_order_operation'[id].status = "Completed"
           /\ work_order_operation[id].status /= "Completed") =>
             work_order_operation[id].status = "InProgress"]_vars

\* C16: an operation's status becomes Paused only from InProgress, and a
\* successful pause changes neither started_at, completed_at nor the status
\* of a work center.
C16_PausedOnlyFromInProgress ==
    [][\A id \in Ids(work_order_operation) :
          (/\ update_work_order_operation(id, [status |-> "Paused"])
           /\ response'.code = 200) =>
             /\ work_order_operation[id].status = "InProgress"
             /\ work_order_operation'[id].started_at =
                   work_order_operation[id].started_at
             /\ work_order_operation'[id].completed_at =
                   work_order_operation[id].completed_at
             /\ UNCHANGED work_center]_vars

C18_StartKeepsStartedAt ==
    [][\A id \in Ids(work_order_operation), data \in StartRequests :
          (update_work_order_operation(id, data) /\ response'.code = 200) =>
             /\ work_order_operation'[id].status = "InProgress"
             /\ work_center'[work_order_operation[id].work_center_id].status = "Busy"
             /\ "operator_name" \in DOMAIN data =>
                   work_order_operation'[id].operator_name = data.operator_name
             /\ work_order_operation'[id].started_at =
                   IF work_order_operation[id].started_at = NoTime
                   THEN now
                   ELSE work_order_operation[id].started_at]_vars

\* C19: in an operation patch request, updates to operator_name, notes and
\* estimated_duration_minutes are applied whatever status value the same
\* request carries (none, InProgress, Paused, Cancelled or Completed), and
\* they change neither the operation's status or timestamps nor any work
\* center's status.
C19_FieldUpdatesIndependentOfStatus ==
    [][\A id \in Ids(work_order_operation), data \in FieldRequests :
          (update_work_order_operation(id, data) /\ response'.code = 200) =>
             /\ work_order_operation'[id].operator_name = data.operator_name
             /\ work_order_operation'[id].notes = data.notes
             /\ work_order_operation'[id].estimated_duration_minutes =
                   data.estimated_duration_minutes
             /\ "status" \notin DOMAIN data =>
                   /\ work_order_operation'[id].status =
                         work_order_operation[id].status
                   /\ work_order_operation'[id].started_at =
                         work_order_operation[id].started_at
                   /\ work_order_operation'[id].completed_at =
                         work_order_operation[id].completed_at
                   /\ UNCHANGED work_center]_vars

\* C29: in every state reachable by operation status transitions, a work
\* center referenced by at least one operation in status InProgress has status
\* Busy, also when operations of different work orders share the work center.
C29_BusyWhileInProgress ==
    \A o \in Ids(work_order_operation) :
        work_order_operation[o].status = "InProgress" =>
            work_center[work_order_operation[o].work_center_id].status = "Busy"

\* C30: an operation enters InProgress only if its work center is Available at
\* that moment, so a work center that is Busy or UnderMaintenance is never
\* taken over by starting an operation, and UnderMaintenance is never replaced
\* by Busy or Available as a side effect of an operation transition.
C30_StartNeedsAvailableCenter ==
    [][\A id \in Ids(work_order_operation), st \in OperationStatus :
          update_work_order_operation(id, [status |-> st]) =>
             /\ (/\ work_order_operation[id].status /= "InProgress"
                 /\ work_order_operation'[id].status = "InProgress") =>
                    work_center[work_order_operation[id].work_center_id].status
                        = "Available"
             /\ \A w \in WorkCenterIds :
                    work_center[w].status = "UnderMaintenance" =>
                        work_center'[w].status = "UnderMaintenance"]_vars

\* C28: a transition to InProgress that is refused for a sequence-dependency
\* violation changes nothing: the operation's status, started_at and
\* operator_name, the other fields carried by the same request, and the work
\* center's status are as they were before the request.
C28_RefusedStartChangesNothing ==
    [][\A id \in Ids(work_order_operation), data \in FieldRequests :
          (/\ update_work_order_operation(id, data)
           /\ "status" \in DOMAIN data
           /\ data.status = "InProgress"
           /\ \E p \in EarlierSiblings(id) :
                 work_order_operation[p].status /= "Completed") =>
             /\ response'.code = 400
             /\ UNCHANGED <<work_order_operation, work_center>>]_vars

\* A start carrying other fields has just been refused, after other requests
\* have written their fields.
C28_Witness ==
    /\ response = [handler |-> "update_work_order_operation", code |-> 400]
    /\ \E o \in Ids(work_order_operation) :
          /\ work_order_operation[o].notes /= "checked"
          /\ \E p \in EarlierSiblings(o) :
                /\ work_order_operation[p].status = "InProgress"
                /\ work_order_operation[p].notes = "checked"

(***************************************************************************)
(* The stock ledger.                                                       *)
(***************************************************************************)

\* C20: recording a stock movement whose quantity_kg exceeds the lot's
\* remaining_kg is rejected: no StockMovement record is created and the lot's
\* remaining_kg is unchanged.
C20_OverdrawRejected ==
    [][\A payload \in StockMovements :
          (/\ create_stock_movement(payload)
           /\ payload.lot_id \in Ids(lot)
           /\ payload.quantity_kg > lot[payload.lot_id].remaining_kg) =>
             /\ response'.code /= 201
             /\ UNCHANGED <<stock_movement, lot>>]_vars

\* C21: recording a stock movement of quantity q against a lot with
\* remaining_kg r, q <= r, creates one StockMovement record and leaves the lot
\* with remaining_kg = r - q in the same step.
C21_MovementDecrementsLot ==
    [][\A payload \in StockMovements :
          (/\ create_stock_movement(payload)
           /\ payload.lot_id \in Ids(lot)
           /\ payload.work_order_id \in Ids(work_order)
           /\ payload.quantity_kg <= lot[payload.lot_id].remaining_kg) =>
             /\ Len(stock_movement') = Len(stock_movement) + 1
             /\ lot'[payload.lot_id].remaining_kg =
                   lot[payload.lot_id].remaining_kg - payload.quantity_kg]_vars

\* C22: in every state reachable by lot creations, stock movements and
\* remaining-quantity patches, every lot's remaining_kg is >= 0.
C22_RemainingNeverNegative ==
    \A l \in Ids(lot) : lot[l].remaining_kg >= 0

(***************************************************************************)
(* Overlapping requests.                                                   *)
(***************************************************************************)

\* C23: the sequence-dependency check and the status write of a transition to
\* InProgress are atomic with respect to overlapping requests on sibling
\* operations: when a request's commit puts an operation in InProgress, every
\* sibling with a smaller sequence number is Completed.
C23_CheckAndWriteAtomic ==
    [][\A s \in sessions :
          (/\ update_work_order_operation_commit(s)
           /\ work_order_operation[s.id].status /= "InProgress"
           /\ work_order_operation'[s.id].status = "InProgress") =>
             \A p \in EarlierSiblings(s.id) :
                 work_order_operation'[p].status = "Completed"]_vars

\* C24: when two production orders are created at the same time for the same
\* die and both compute the same order number, the conflict on insert is
\* recovered by regenerating the number, so both creations succeed with
\* distinct order numbers.
C24_NumberConflictRecovered ==
    [][\A s \in sessions :
          (/\ create_production_order_commit(s)
           /\ s.po.order_number \in Column(production_order, "order_number")) =>
             /\ response'.code = 201
             /\ Len(production_order') = Len(production_order) + 1
             /\ production_order'[Len(production_order')].die_id = s.po.die_id
             /\ production_order'[Len(production_order')].order_number
                   \notin Column(production_order, "order_number")]_vars

(***************************************************************************)
(* Work centers.                                                           *)
(***************************************************************************)

\* C25: a work center referenced by at least one work order operation cannot
\* be deleted: the delete request fails and the work center and the
\* operations referencing it are unchanged.
C25_ReferencedCenterNotDeletable ==
    [][\A id \in WorkCenterIds :
          (/\ delete_work_center(id)
           /\ \E o \in Ids(work_order_operation) :
                 work_order_operation[o].work_center_id = id) =>
             /\ response'.code \notin 200..299
             /\ UNCHANGED <<work_center, work_order_operation>>]_vars

\* A delete request has failed while no BOM row is left and every work center
\* is referenced by an operation.
C25_Witness ==
    /\ response = [handler |-> "delete_work_center", code |-> 500]
    /\ \A b \in Ids(component_bom) : component_bom[b].deleted
    /\ \A w \in Ids(work_center) :
          /\ ~work_center[w].deleted
          /\ \E o \in Ids(work_order_operation) :
                work_order_operation[o].work_center_id = w

(***************************************************************************)
(* Orders and the operation status machine.                                *)
(***************************************************************************)

\* C26: operation status transitions never change the owning work order or
\* production order (status, completed_at or anything else), even when every
\* operation of every work order of the production order is Completed; only a
\* patch of the production order changes its status.
C26_OperationsLeaveOrders ==
    [][(\E id \in RequestIds(work_order_operation), st \in OperationStatus :
            update_work_order_operation(id, [status |-> st]))
          => UNCHANGED <<production_order, work_order>>]_vars

\* The last open operation has just been completed and the production order
\* is not Completed.
C26_Witness ==
    /\ response = [handler |-> "update_work_order_operation", code |-> 200]
    /\ work_order_operation /= <<>>
    /\ \A o \in Ids(work_order_operation) :
          work_order_operation[o].status = "Completed"
    /\ \A po \in Ids(production_order) :
          /\ production_order[po].status = "InProgress"
          /\ production_order[po].completed_at = NoTime

(***************************************************************************)
(* Numbering over a long history.                                          *)
(***************************************************************************)

\* The number written by the trailing segment of an order number.
SequenceOf(n) == DigitsValue(TrailingSegment(n), 0)

\* C27: for any history of production orders of one die created through
\* create_production_order, also beyond 999 of them, each creation for the die
\* receives a sequence number greater than that of every order the die has, so
\* a generated number never equals an existing one.
C27_SequenceStrictlyIncreasing ==
    [][\A d \in Ids(die) :
          create_production_order(d, "Waiting") =>
             LET next == SequenceOf(generate_production_order_number(d))
             IN  /\ generate_production_order_number(d) \notin NumbersOf(d)
                 /\ \A n \in NumbersOf(d) : SequenceOf(n) < next]_vars

=============================================================================
